---- MODULE Spec2Model ----
(***************************************************************************)
(* Model of src/app.js: the chat session controller (sendText, the event   *)
(* handlers, setThinking, render) and the reply normalisation              *)
(* (extractBotReply).                                                      *)
(*                                                                         *)
(* Text is a sequence of tokens. A token is one character or, for the      *)
(* fixed texts of the program, the whole literal (written here as an ASCII *)
(* gloss of the literal in the source). " " is the only whitespace token.  *)
(***************************************************************************)
EXTENDS Integers, Sequences, FiniteSets, TLC

VARIABLES
  messages,        \* app.js:51   the message list, in insertion order
  view,            \* app.js:42   rows of #messages as left by the last render()
  isSending,       \* app.js:56   the send-in-flight flag
  thinkingHidden,  \* app.js:45   #thinking carries the class "hidden"
  btnDisabled,     \* app.js:44   #btnSend.disabled
  inputDisabled,   \* app.js:43   #txtInput.disabled
  inputValue,      \* app.js:43   #txtInput.value
  onLine,          \* app.js:273  navigator.onLine
  storage,         \* app.js:31   localStorage[CID_KEY] (Absent when not stored)
  clientId,        \* app.js:31   the client identifier of this page load
  inflight,        \* suspended sendText invocations (at an await) and their request
  requests,        \* every request handed to fetch(), in issue order
  lastCall,        \* record of the most recent sendText invocation or continuation
  scenario,        \* which server and how many sends this behaviour covers
  probe,           \* argument of a stand-alone extractBotReply call
  reply            \* its result (NoReply before the call)

vars == <<messages, view, isSending, thinkingHidden, btnDisabled, inputDisabled,
          inputValue, onLine, storage, clientId, inflight, requests, lastCall,
          scenario, probe, reply>>

sessionVars == <<messages, view, isSending, thinkingHidden, btnDisabled,
                 inputDisabled, inputValue, onLine, storage, clientId, inflight,
                 requests, lastCall>>

(***************************************************************************)
(* Bounds of the model.                                                    *)
(***************************************************************************)
MaxSends == 2        \* accepted sends per behaviour, session scenario
MaxReplySends == 1   \* accepted sends per behaviour, reply scenario

(***************************************************************************)
(* Text.                                                                   *)
(***************************************************************************)
Sp == " "

RECURSIVE TrimLeft(_)
TrimLeft(s) == IF s # << >> /\ Head(s) = Sp THEN TrimLeft(Tail(s)) ELSE s

RECURSIVE TrimRight(_)
TrimRight(s) ==
  IF s # << >> /\ s[Len(s)] = Sp THEN TrimRight(SubSeq(s, 1, Len(s) - 1)) ELSE s

\* String.prototype.trim
Trim(s) == TrimRight(TrimLeft(s))

\* The fixed texts of app.js.
Rephrase == <<"Please rephrase, thank you">>                        \* :127 :132 :149
NetUnstable == <<"Network unstable, please try again">>             \* :158
Malformed == <<"Server response malformed, try again later">>       \* :168
Abnormal == <<"System response abnormal, try again later">>         \* :175
NetUnstableThrown == <<"Network unstable, please try again", "!">>  \* :239
Offline == <<"Currently offline, check the connection and retry">>  \* :273
Welcome == <<"Welcome to the Taipei Marathon smart helpdesk">>      \* :338
UnknownError == <<"unknown error">>                                 \* :245
\* :220, the four characters of the literal by code point (the Chinese words
\* for Traditional Chinese)
Language == <<"U+7E41", "U+9AD4", "U+4E2D", "U+6587">>
ApiBase == <<"https://taipei-marathon-server.onrender.com">>        \* :22

\* api(p), app.js:23
api(p) == ApiBase \o p

(***************************************************************************)
(* JavaScript values. A primitive is [t, s, n, b]; a top-level JSON value  *)
(* adds f, its fields (Absent where the object has no such key).           *)
(***************************************************************************)
VStr(s) == [t |-> "str", s |-> s, n |-> 0, b |-> FALSE]
VNum(n) == [t |-> "num", s |-> << >>, n |-> n, b |-> FALSE]
VBool(b) == [t |-> "bool", s |-> << >>, n |-> 0, b |-> b]
VNull == [t |-> "null", s |-> << >>, n |-> 0, b |-> FALSE]
Absent == [t |-> "undef", s |-> << >>, n |-> 0, b |-> FALSE]

KeyOrder == <<"text", "message", "error", "errorRaw", "body", "clientId", "code">>
Keys == {KeyOrder[i] : i \in 1..Len(KeyOrder)}
NoFields == [k \in Keys |-> Absent]

DPrim(v) == [t |-> v.t, s |-> v.s, n |-> v.n, b |-> v.b, f |-> NoFields]
DObj(f) == [t |-> "obj", s |-> << >>, n |-> 0, b |-> FALSE, f |-> f]
PrimOf(d) == [t |-> d.t, s |-> d.s, n |-> d.n, b |-> d.b]

Digits == <<"0", "1", "2", "3", "4", "5", "6", "7", "8", "9">>

RECURSIVE NumStr(_)
NumStr(n) ==
  IF n < 10 THEN <<Digits[n + 1]>> ELSE NumStr(n \div 10) \o <<Digits[(n % 10) + 1]>>

\* String(v) and template-literal interpolation
ToStr(v) ==
  CASE v.t = "str" -> v.s
    [] v.t = "num" -> NumStr(v.n)
    [] v.t = "bool" -> IF v.b THEN <<"true">> ELSE <<"false">>
    [] v.t = "null" -> <<"null">>
    [] v.t = "undef" -> <<"undefined">>
    [] OTHER -> <<"[object Object]">>

\* ToBoolean(v)
Truthy(v) ==
  CASE v.t = "str" -> v.s # << >>
    [] v.t = "num" -> v.n # 0
    [] v.t = "bool" -> v.b
    [] v.t \in {"null", "undef"} -> FALSE
    [] OTHER -> TRUE

Nullish(v) == v.t \in {"null", "undef"}
JsOr(a, b) == IF Truthy(a) THEN a ELSE b            \* a || b
JsCoalesce(a, b) == IF Nullish(a) THEN b ELSE a     \* a ?? b

\* 'k' in data, for an object
HasKey(d, k) == d.f[k].t # "undef"
\* data.k: a missing key, and any property of a non-object, reads undefined
Get(d, k) == IF d.t = "obj" THEN d.f[k] ELSE Absent
\* Object.keys(data), in order
RECURSIVE KeysFrom(_, _)
KeysFrom(d, i) ==
  IF i > Len(KeyOrder) THEN << >>
  ELSE (IF HasKey(d, KeyOrder[i]) THEN <<KeyOrder[i]>> ELSE << >>) \o KeysFrom(d, i + 1)
ObjectKeys(d) == KeysFrom(d, 1)

\* JSON text of a primitive
JsonPrim(v) ==
  IF v.t = "str" THEN <<"\"">> \o v.s \o <<"\"">> ELSE ToStr(v)

RECURSIVE JsonMembers(_, _, _)
JsonMembers(d, ks, i) ==
  IF i > Len(ks) THEN << >>
  ELSE <<"\n  ", "\"", ks[i], "\"", ": ">> \o JsonPrim(d.f[ks[i]])
       \o (IF i < Len(ks) THEN <<",">> ELSE << >>) \o JsonMembers(d, ks, i + 1)

\* JSON.stringify(data, null, 2)
JsonStringify(d) ==
  IF d.t # "obj" THEN JsonPrim(d)
  ELSE IF ObjectKeys(d) = << >> THEN <<"{", "}">>
  ELSE <<"{">> \o JsonMembers(d, ObjectKeys(d), 1) \o <<"\n", "}">>

(***************************************************************************)
(* extractBotReply, app.js:123-177.                                        *)
(***************************************************************************)
\* app.js:137-143: the field the reply is taken from (null when neither is there)
textContentOf(data) ==
  IF HasKey(data, "text") THEN data.f["text"]
  ELSE IF HasKey(data, "message") THEN data.f["message"]
  ELSE VNull

\* mutant: clientId counts as a key
meaningfulKeys_All(data) == ObjectKeys(data)

\* app.js:154
meaningfulKeys(data) == SelectSeq(ObjectKeys(data), LAMBDA k : k # "clientId")

\* mutant: the errorRaw rule tried before the error rule
ReplyWithoutText_RawFirst(data) ==
  IF Len(meaningfulKeys(data)) = 0 THEN NetUnstable
  ELSE IF Truthy(Get(data, "errorRaw")) THEN Malformed
  ELSE IF Truthy(Get(data, "error")) THEN ToStr(Get(data, "error"))
  ELSE JsonStringify(data)

\* app.js:152-176, the rules after text/message; JSON.stringify raises on no
\* value that JSON.parse returns, so the catch at :174 is not entered
ReplyWithoutText(data) ==
  IF Len(meaningfulKeys(data)) = 0 THEN NetUnstable
  ELSE IF Truthy(Get(data, "error")) THEN ToStr(Get(data, "error"))
  ELSE IF Truthy(Get(data, "errorRaw")) THEN Malformed
  ELSE JsonStringify(data)

extractBotReply(data) ==
  IF data.t = "str"
  THEN (LET trimmed == Trim(data.s) IN IF trimmed # << >> THEN trimmed ELSE Rephrase)
  ELSE IF ~Truthy(data) \/ data.t # "obj" THEN Rephrase
  ELSE LET textContent == textContentOf(data) IN
       IF textContent.t # "null"
       THEN (LET processed == Trim(ToStr(textContent)) IN
             IF processed # << >> THEN processed ELSE Rephrase)
       ELSE ReplyWithoutText(data)

(***************************************************************************)
(* The environment: what is typed or passed, what the server answers, how  *)
(* a request can fail.                                                     *)
(***************************************************************************)
\* values of #txtInput typed by the user
InputTexts == {<< >>, <<" ">>, <<" ", "a", " ">>}
\* arguments of a direct sendText(text) call; Absent is a call without argument
ArgValues == {Absent, VStr(<<"b", " ">>), VStr(<<" ", " ">>)}

\* the session scenario has a server with few answers and follows it over
\* several sends; the reply scenario has a server with many answers; the brief
\* scenario has few answers and few sends; the live scenario has several sends
\* and a server with one body
Statuses(sc) ==
  IF sc \in {"session", "brief", "live"} THEN {200, 404} ELSE {200, 404, 500, 502}
SendBound(sc) == IF sc \in {"session", "live"} THEN MaxSends ELSE MaxReplySends
StatusText(st) ==
  CASE st = 200 -> <<"OK">>
    [] st = 404 -> <<"Not Found">>
    [] st = 500 -> <<"Internal Server Error">>
    [] st = 502 -> <<"Bad Gateway">>

Fields(text, message, error, body) ==
  [NoFields EXCEPT !["text"] = text, !["message"] = message,
                   !["error"] = error, !["body"] = body]

\* JSON values a response body can carry
BodyData ==
  { DObj(NoFields),
    DObj(Fields(VStr(<<" ", "h", "i">>), VStr(<<"m">>), Absent, Absent)),
    DObj(Fields(Absent, VStr(<<"m">>), VStr(<<"bad">>), Absent)),
    DObj(Fields(Absent, Absent, VStr(<<"bad">>), VStr(<<"c">>))),
    DObj(Fields(Absent, Absent, VNum(0), VStr(<<"c">>))) }

\* bodies that are not JSON texts
BadBodies == {<<"<html>">>, <<" ">>}
\* every response body: empty, a JSON text, or not a JSON text
AllBodies == {<< >>} \cup {JsonStringify(d) : d \in BodyData} \cup BadBodies
SessionBodies ==
  {JsonStringify(DObj(Fields(VStr(<<" ", "h", "i">>), VStr(<<"m">>), Absent, Absent))),
   <<"<html>">>}
BriefBodies ==
  {<< >>,
   JsonStringify(DObj(Fields(VStr(<<" ", "h", "i">>), VStr(<<"m">>), Absent, Absent)))}
LiveBodies ==
  {JsonStringify(DObj(Fields(VStr(<<" ", "h", "i">>), VStr(<<"m">>), Absent, Absent)))}
Bodies(sc) ==
  CASE sc = "session" -> SessionBodies
    [] sc = "brief" -> BriefBodies
    [] sc = "live" -> LiveBodies
    [] OTHER -> AllBodies

\* what fetch() and res.text() reject with: a TypeError carrying the browser's text
NetErrors == {[name |-> "TypeError", message |-> <<"Failed to fetch">>],
              [name |-> "TypeError", message |-> <<"Load failed">>]}
\* what a failing DOM call in render() raises
RenderError == [name |-> "TypeError", message |-> <<"render failed">>]

\* JSON.parse(raw): the value whose JSON text raw is; ParseFail when there is none
ParseFail == [t |-> "fail", s |-> << >>, n |-> 0, b |-> FALSE, f |-> NoFields]
JsonParse(raw) ==
  IF \E d \in BodyData : JsonStringify(d) = raw
  THEN CHOOSE d \in BodyData : JsonStringify(d) = raw
  ELSE ParseFail

(***************************************************************************)
(* sendText, app.js:182-289, and what it calls.                            *)
(***************************************************************************)
Msg(role, text) == [role |-> role, text |-> text]

\* mutant: the message is put in front
Push_Front(msgs, m) == <<m>> \o msgs

\* messages.push(m), app.js:203, :259, :282
Push(msgs, m) == Append(msgs, m)

\* render(), app.js:86-117: one row per message
Render(msgs) ==
  [i \in 1..Len(msgs) |->
     [cls |-> IF msgs[i].role = "user" THEN "msg user" ELSE "msg bot",
      alt |-> IF msgs[i].role = "user" THEN "you" ELSE "bot",
      text |-> msgs[i].text]]

\* mutant: the input is not enabled again
setThinking_InputStaysDisabled(on) == [hidden |-> ~on, btn |-> on, inp |-> TRUE]

\* setThinking(on), app.js:69-81, with #thinking, #btnSend and #txtInput present
setThinking(on) == [hidden |-> ~on, btn |-> on, inp |-> on]

\* mutant: no send lock
SendLocked_Never(flag) == FALSE

\* app.js:184: a call is dropped while a send is in flight
SendLocked(flag) == flag

\* mutant: the text is not trimmed
ContentOf_NoTrim(arg, value) ==
  ToStr(JsCoalesce(JsCoalesce(arg, VStr(value)), VStr(<< >>)))

\* app.js:189
ContentOf(arg, value) == Trim(ToStr(JsCoalesce(JsCoalesce(arg, VStr(value)), VStr(<< >>))))

\* app.js:211-222: the request handed to fetch()
Request(content, cid) ==
  [method |-> "POST", url |-> api(<<"/api/chat">>),
   contentType |-> "application/json", xClientId |-> cid,
   body |-> [text |-> content, clientId |-> cid, language |-> Language]]

\* mutant: a body that is no JSON text is taken for an empty object
ParseBody_EmptyOnFailure(raw) ==
  IF raw = << >> THEN DObj(NoFields)
  ELSE IF JsonParse(raw).t # "fail" THEN JsonParse(raw)
  ELSE DObj(NoFields)

\* app.js:227-234
ParseBody(raw) ==
  IF raw = << >> THEN DObj(NoFields)
  ELSE IF JsonParse(raw).t # "fail" THEN JsonParse(raw)
  ELSE DObj([NoFields EXCEPT !["errorRaw"] = VStr(raw)])

ResOk(st) == st \in 200..299

\* app.js:242-245
serverMsg(data, raw) ==
  JsCoalesce(
    JsCoalesce(
      IF Truthy(data)
      THEN JsOr(JsOr(Get(data, "error"), Get(data, "body")), Get(data, "message"))
      ELSE PrimOf(data),
      VStr(raw)),
    VStr(UnknownError))

\* app.js:237-247: the error thrown for a response that is not ok
HttpError(st, data, raw) ==
  IF st = 502 \/ st = 404
  THEN [name |-> "Error", message |-> NetUnstableThrown]
  ELSE [name |-> "Error",
        message |-> <<"HTTP ">> \o NumStr(st) \o <<" ">> \o StatusText(st)
                    \o <<" - ">> \o ToStr(serverMsg(data, raw))]

\* mutant: navigator.onLine is not consulted
friendly_NoOfflineCheck(err, online) ==
  IF err.message # << >> THEN err.message ELSE <<err.name>>

\* app.js:272-274
friendly(err, online) ==
  IF ~online THEN Offline
  ELSE IF err.message # << >> THEN err.message ELSE <<err.name>>

IsAssistant(m) == m.role = "assistant"
IsUser(m) == m.role = "user"
AsstCount(msgs) == Len(SelectSeq(msgs, IsAssistant))
UserCount(msgs) == Len(SelectSeq(msgs, IsUser))

(***************************************************************************)
(* State after the script has run once, app.js:30-56 and 334-342.          *)
(***************************************************************************)
\* crypto.randomUUID(), app.js:34
FreshId == <<"cid-fresh">>

\* clientId before any load of the page: the script has not run
NoPage == << >>
PageOpen == clientId # NoPage

\* the identifiers a load may generate (app.js:34-35)
FreshIds == {FreshId, <<"cid-fresh-2">>}
StoredId == <<"cid-stored">>

\* mutant: every load generates and stores an identifier
LoadClientId_Regenerate(stored, fresh) ==
  [clientId |-> fresh, storage |-> VStr(fresh)]

\* app.js:31-37: [clientId, storage] after a load that finds stored in
\* localStorage and, if it generates an identifier, generates fresh
LoadClientId(stored, fresh) ==
  IF ~Truthy(stored)
  THEN [clientId |-> fresh, storage |-> VStr(fresh)]
  ELSE [clientId |-> stored.s, storage |-> stored]

\* lastCall: what the most recent sendText invocation, or the most recent
\* continuation of one, did. base is the length of the message list when the call
\* was accepted, appended the assistant messages added since; status, raw and err
\* are the response or the failure handled; online is navigator.onLine as read at
\* :273 (TRUE when it was not read); threw is TRUE when render() at :283 raised,
\* so that the promise of sendText is rejected.
NoCall ==
  [kind |-> "none", outcome |-> "none", base |-> 0, appended |-> 0, threw |-> FALSE,
   status |-> 0, raw |-> << >>, err |-> << >>, online |-> TRUE]
Rejected(kind) == [NoCall EXCEPT !.kind = kind]
Ended(kind, outcome, base, appended, threw, status, raw, err, online) ==
  [kind |-> kind, outcome |-> outcome, base |-> base, appended |-> appended,
   threw |-> threw, status |-> status, raw |-> raw, err |-> err, online |-> online]
NoReply == Absent

InitSession(stored) ==
  /\ messages = <<Msg("assistant", Welcome)>>
  /\ view = Render(messages)
  /\ isSending = FALSE
  /\ thinkingHidden = TRUE
  /\ btnDisabled = FALSE
  /\ inputDisabled = FALSE
  /\ inputValue = << >>
  /\ onLine = TRUE
  /\ storage = LoadClientId(stored, FreshId).storage
  /\ clientId = LoadClientId(stored, FreshId).clientId
  /\ inflight = {}
  /\ requests = << >>
  /\ lastCall = NoCall

Init ==
  /\ InitSession(VNull)
  /\ scenario = "session"
  /\ probe = DObj(NoFields)
  /\ reply = NoReply

(***************************************************************************)
(* sendText up to its first await (app.js:182-222), with the catch and     *)
(* finally blocks when render() raises before the request is issued.       *)
(***************************************************************************)
Thinking(on) ==
  /\ thinkingHidden' = setThinking(on).hidden
  /\ btnDisabled' = setThinking(on).btn
  /\ inputDisabled' = setThinking(on).inp

\* mutant: the flag is not reset
Finally_Keep(flag) == flag

\* app.js:285-288: the value isSending is left with
Finally(flag) == FALSE

\* app.js:265-288, entered with the message list msgs and the error err.
\* render() at :283 comes after the push, so whether it raises changes only
\* whether the promise of sendText is rejected (threw, in lastCall)
CatchFinally(msgs, err) ==
  /\ Thinking(FALSE)
  /\ messages' = Push(msgs, Msg("assistant", friendly(err, onLine)))
  /\ view' = Render(messages')
  /\ isSending' = Finally(isSending)

sendText(arg) ==
  LET content == ContentOf(arg, inputValue) IN
  IF SendLocked(isSending)
  THEN /\ lastCall' = Rejected("busy")
       /\ UNCHANGED <<messages, view, isSending, thinkingHidden, btnDisabled,
                      inputDisabled, inputValue, inflight, requests>>
  ELSE IF content = << >>
  THEN /\ lastCall' = Rejected("empty")
       /\ UNCHANGED <<messages, view, isSending, thinkingHidden, btnDisabled,
                      inputDisabled, inputValue, inflight, requests>>
  ELSE /\ UserCount(messages) < SendBound(scenario)
       /\ inputValue' = << >>
       /\ LET msgs1 == Push(messages, Msg("user", content)) IN
          \/ \* render() at :205 returns
             /\ messages' = msgs1
             /\ view' = Render(msgs1)
             /\ Thinking(TRUE)
             /\ isSending' = TRUE
             /\ requests' = Append(requests, Request(content, clientId))
             /\ inflight' = inflight \cup
                  {[id |-> Len(requests) + 1, content |-> content, stage |-> "fetch",
                    status |-> 0, base |-> Len(messages),
                    asst0 |-> AsstCount(messages)]}
             /\ lastCall' = [Rejected("accepted") EXCEPT !.base = Len(messages)]
          \/ \* render() at :205 raises
             /\ CatchFinally(msgs1, RenderError)
             /\ \E threw \in BOOLEAN :
                  lastCall' = Ended("aborted", "exception", Len(messages), 1, threw,
                                    0, << >>, RenderError.message, onLine)
             /\ UNCHANGED <<inflight, requests>>

\* app.js:303-306; a disabled button dispatches no click
ClickSend ==
  /\ PageOpen
  /\ ~btnDisabled
  /\ sendText(Absent)
  /\ UNCHANGED <<onLine, storage, clientId, scenario, probe, reply>>

\* app.js:309-314; a disabled input receives no key
KeydownInput ==
  /\ PageOpen
  /\ ~inputDisabled
  /\ \E key \in {"Enter", "a"}, shiftKey \in BOOLEAN :
       IF key = "Enter" /\ ~shiftKey
       THEN sendText(Absent)
       ELSE UNCHANGED <<messages, view, isSending, thinkingHidden, btnDisabled,
                        inputDisabled, inputValue, inflight, requests, lastCall>>
  /\ UNCHANGED <<onLine, storage, clientId, scenario, probe, reply>>

\* a call of the global function sendText(text) by any script
DirectCall ==
  /\ PageOpen
  /\ \E arg \in ArgValues : sendText(arg)
  /\ UNCHANGED <<onLine, storage, clientId, scenario, probe, reply>>

(***************************************************************************)
(* The continuations of sendText after its awaits (app.js:211-288).        *)
(***************************************************************************)
Appended(c) == AsstCount(messages') - c.asst0

\* await fetch(...) resolves with a response of status st; res.text() is awaited
FetchResolve ==
  \E c \in inflight, st \in Statuses(scenario) :
    /\ c.stage = "fetch"
    /\ inflight' = (inflight \ {c}) \cup {[c EXCEPT !.stage = "text", !.status = st]}
    /\ UNCHANGED <<messages, view, isSending, thinkingHidden, btnDisabled,
                   inputDisabled, inputValue, onLine, storage, clientId, requests,
                   lastCall, scenario, probe, reply>>

\* await fetch(...) or await res.text() rejects: catch and finally
NetworkFail ==
  \E c \in inflight, err \in NetErrors, threw \in BOOLEAN :
    /\ CatchFinally(messages, err)
    /\ inflight' = inflight \ {c}
    /\ lastCall' = Ended("completed", "network_error", c.base, Appended(c), threw,
                         c.status, << >>, err.message, onLine)
    /\ UNCHANGED <<inputValue, onLine, storage, clientId, requests, scenario,
                   probe, reply>>

\* data of app.js:227-234 for each body, computed once
Parsed == [raw \in AllBodies |-> ParseBody(raw)]

\* await res.text() resolves with raw: app.js:225-288
TextResolve ==
  \E c \in inflight, raw \in Bodies(scenario) :
    /\ c.stage = "text"
    /\ inflight' = inflight \ {c}
    /\ LET data == Parsed[raw] IN
       IF ~ResOk(c.status)
       THEN /\ CatchFinally(messages, HttpError(c.status, data, raw))
            /\ \E threw \in BOOLEAN :
                 lastCall' = Ended("completed", "http_error", c.base, Appended(c),
                                   threw, c.status, raw,
                                   HttpError(c.status, data, raw).message, onLine)
       ELSE LET msgs1 == Push(messages, Msg("assistant", extractBotReply(data))) IN
            \/ \* render() at :263 returns
               /\ messages' = msgs1
               /\ view' = Render(msgs1)
               /\ Thinking(FALSE)
               /\ isSending' = Finally(isSending)
               /\ lastCall' = Ended("completed",
                                    IF HasKey(data, "errorRaw") THEN "parse_error"
                                    ELSE "success",
                                    c.base, Appended(c), FALSE, c.status, raw,
                                    << >>, TRUE)
            \/ \* render() at :263 raises
               /\ CatchFinally(msgs1, RenderError)
               /\ \E threw \in BOOLEAN :
                    lastCall' = Ended("completed", "exception", c.base, Appended(c),
                                      threw, c.status, raw, RenderError.message,
                                      onLine)
    /\ UNCHANGED <<inputValue, onLine, storage, clientId, requests, scenario,
                   probe, reply>>

(***************************************************************************)
(* The environment.                                                        *)
(***************************************************************************)
\* the user edits #txtInput (not possible while it is disabled)
TypeInput ==
  /\ PageOpen
  /\ ~inputDisabled
  /\ \E s \in InputTexts : inputValue' = s
  /\ UNCHANGED <<messages, view, isSending, thinkingHidden, btnDisabled,
                 inputDisabled, onLine, storage, clientId, inflight, requests,
                 lastCall, scenario, probe, reply>>

\* the browser gains or loses connectivity
ConnectivityChange ==
  /\ onLine' = ~onLine
  /\ UNCHANGED <<messages, view, isSending, thinkingHidden, btnDisabled,
                 inputDisabled, inputValue, storage, clientId, inflight, requests,
                 lastCall, scenario, probe, reply>>

Next ==
  \/ ClickSend
  \/ KeydownInput
  \/ DirectCall
  \/ FetchResolve
  \/ NetworkFail
  \/ TextResolve
  \/ TypeInput
  \/ ConnectivityChange

\* several sends against a server with few answers
Spec == Init /\ [][Next]_vars

\* few sends against a server with many answers
InitReply ==
  /\ InitSession(VNull)
  /\ scenario = "reply"
  /\ probe = DObj(NoFields)
  /\ reply = NoReply

SpecReply == InitReply /\ [][Next]_vars

\* the live scenario with a network that ends every request, by a response
\* or by a failure, and an event loop that resumes the waiting invocation
InitLive ==
  /\ InitSession(VNull)
  /\ scenario = "live"
  /\ probe = DObj(NoFields)
  /\ reply = NoReply

SpecLive ==
  /\ InitLive
  /\ [][Next]_vars
  /\ WF_vars(FetchResolve \/ NetworkFail)
  /\ WF_vars(TextResolve \/ NetworkFail)

(***************************************************************************)
(* extractBotReply called on its own, on every value of ProbeData.         *)
(***************************************************************************)
FieldValues ==
  {Absent, VNull, VStr(<< >>), VStr(<<" ">>), VStr(<<" ", "a", " ">>),
   VNum(0), VNum(7), VBool(FALSE), VBool(TRUE)}

ProbeObjects ==
  {DObj([NoFields EXCEPT !["text"] = t, !["message"] = m, !["error"] = e,
                         !["errorRaw"] = r, !["clientId"] = c, !["code"] = k]) :
     t \in FieldValues, m \in FieldValues, e \in FieldValues,
     r \in {Absent, VStr(<<"<html>">>)}, c \in {Absent, VStr(<<"x">>)},
     k \in {Absent, VNum(7)}}

ProbeData == ProbeObjects \cup {DPrim(v) : v \in FieldValues}

InitExtract ==
  /\ InitSession(VNull)
  /\ scenario = "extract"
  /\ probe \in ProbeData
  /\ reply = NoReply

ExtractCall ==
  /\ reply = NoReply
  /\ reply' = VStr(extractBotReply(probe))
  /\ UNCHANGED <<sessionVars, scenario, probe>>

NextExtract == ExtractCall

SpecExtract == InitExtract /\ [][NextExtract]_vars

(***************************************************************************)
(* extractBotReply called on an object without text and message, beside a  *)
(* session of the brief scenario.                                          *)
(***************************************************************************)
BareObjects ==
  {DObj([NoFields EXCEPT !["clientId"] = c, !["code"] = k]) :
     c \in FieldValues, k \in {Absent, VNum(7)}}

InitBare ==
  /\ InitSession(VNull)
  /\ scenario = "brief"
  /\ probe \in BareObjects
  /\ reply = NoReply

NextBare == Next \/ ExtractCall

SpecBare == InitBare /\ [][NextBare]_vars

(***************************************************************************)
(* Page loads over one localStorage. No page is open at first (clientId is *)
(* the empty text); localStorage holds nothing or an identifier an earlier *)
(* load stored. requests is the log of the requests of all the pages.      *)
(***************************************************************************)
InitLoad ==
  /\ messages = << >>
  /\ view = << >>
  /\ isSending = FALSE
  /\ thinkingHidden = TRUE
  /\ btnDisabled = FALSE
  /\ inputDisabled = FALSE
  /\ inputValue = << >>
  /\ onLine = TRUE
  /\ storage \in {VNull, VStr(StoredId)}
  /\ clientId = NoPage
  /\ inflight = {}
  /\ requests = << >>
  /\ lastCall = NoCall
  /\ scenario = "brief"
  /\ probe = DObj(NoFields)
  /\ reply = NoReply

\* the page is loaded, or loaded again: the script runs from the top
\* (app.js:30-342); the invocations of the page left are never resumed
PageLoad ==
  /\ Len(requests) <= SendBound(scenario)
  /\ \E fresh \in FreshIds :
       /\ storage' = LoadClientId(storage, fresh).storage
       /\ clientId' = LoadClientId(storage, fresh).clientId
  /\ messages' = <<Msg("assistant", Welcome)>>
  /\ view' = Render(messages')
  /\ isSending' = FALSE
  /\ thinkingHidden' = TRUE
  /\ btnDisabled' = FALSE
  /\ inputDisabled' = FALSE
  /\ inputValue' = << >>
  /\ inflight' = {}
  /\ lastCall' = NoCall
  /\ UNCHANGED <<onLine, requests, scenario, probe, reply>>

NextLoad == PageLoad \/ Next

SpecLoad == InitLoad /\ [][NextLoad]_vars

(***************************************************************************)
(* Properties.                                                             *)
(***************************************************************************)
Completed == lastCall.kind = "completed"
\* the first message appended after the user message of the send lastCall is about
FirstReply == messages[lastCall.base + 2]
HttpPrefix(st) == <<"HTTP ">> \o NumStr(st) \o <<" ">> \o StatusText(st) \o <<" - ">>

\* C1: every accepted send that reached the network stage has, when it returns to
\* idle, appended exactly one assistant message, whatever its outcome (success,
\* non-2xx, unparsable body, network failure, exception while processing or
\* rendering the response).
C1_ExactlyOneAssistant == Completed => lastCall.appended = 1

\* C2: at most one request is outstanding at any time; a sendText call made while
\* one is outstanding is dropped with that request still the only one, and no
\* accepted call issues more than one request.
C2_AtMostOneOutstanding ==
  /\ Cardinality(inflight) <= 1
  /\ lastCall.kind = "busy" => Cardinality(inflight) = 1
  /\ Len(requests) <= UserCount(messages)

C2_Witness ==
  lastCall.kind = "busy" /\ Cardinality(inflight) = 1 /\ Len(requests) = 2

\* C3: at every turn boundary isSending is true iff a request issued by sendText
\* is outstanding; it is false initially, after a call rejected for empty text,
\* and after every outcome of a send.
C3_FlagIffOutstanding ==
  /\ isSending <=> inflight # {}
  /\ lastCall.kind \in {"none", "empty", "completed", "aborted"} => ~isSending

C3_Witness ==
  /\ isSending
  /\ \E c \in inflight : c.stage = "text" /\ c.id = 2

\* C4: while a request is outstanding the busy indicator is shown and the input
\* and the send control are disabled; once the send has completed (success,
\* handled failure, unexpected exception) the indicator is hidden and both are
\* enabled again.
C4_BusyWhileOutstanding ==
  IF inflight # {}
  THEN ~thinkingHidden /\ btnDisabled /\ inputDisabled
  ELSE thinkingHidden /\ ~btnDisabled /\ ~inputDisabled

C4_Witness ==
  /\ Completed /\ lastCall.outcome = "exception"
  /\ thinkingHidden /\ ~btnDisabled /\ ~inputDisabled

\* C5: for a response of status 404 or 502 the assistant message of the send has
\* the text extractBotReply returns for an empty object, whatever the body.
C5_NotFoundIsEmptyObjectText ==
  (Completed /\ lastCall.outcome = "http_error" /\ lastCall.status \in {404, 502})
    => FirstReply = Msg("assistant", extractBotReply(DObj(NoFields)))

\* the server message of C6: the first of error, body, message of the parsed body
\* that has a value, else the raw body, else "unknown error"
C6_ServerMessage(raw) ==
  LET d == ParseBody(raw) IN
  IF Truthy(Get(d, "error")) THEN ToStr(Get(d, "error"))
  ELSE IF Truthy(Get(d, "body")) THEN ToStr(Get(d, "body"))
  ELSE IF Truthy(Get(d, "message")) THEN ToStr(Get(d, "message"))
  ELSE IF raw # << >> THEN raw
  ELSE UnknownError

\* C6: for a response of a non-2xx status other than 502 and 404 the assistant
\* message is made of the status code, the status text and the server message,
\* which for an empty body is "unknown error".
C6_HttpErrorText ==
  (/\ Completed
   /\ lastCall.outcome = "http_error"
   /\ lastCall.status \notin {404, 502})
    => FirstReply = Msg("assistant",
                        HttpPrefix(lastCall.status) \o C6_ServerMessage(lastCall.raw))

\* C7: when fetch (or reading the body) rejects, the send appends one assistant
\* message: the offline text if navigator.onLine is false when the failure is
\* handled, else the message of the error raised.
C7_NetworkFailureText ==
  (Completed /\ lastCall.outcome = "network_error")
    => /\ lastCall.appended = 1
       /\ Len(messages) = lastCall.base + 2
       /\ FirstReply = Msg("assistant",
                           IF lastCall.online THEN lastCall.err ELSE Offline)

C7_Witness ==
  /\ Completed /\ lastCall.outcome = "network_error"
  /\ ~lastCall.online
  /\ lastCall.base = 3

\* C8: a 2xx response whose non-empty body is no JSON text becomes the sentinel
\* {errorRaw: raw} and the assistant message of the send is the
\* malformed-response text.
C8_UnparsableBodyIsMalformed ==
  (/\ Completed
   /\ lastCall.status \in 200..299
   /\ lastCall.raw \in BadBodies)
    => /\ ParseBody(lastCall.raw)
            = DObj([NoFields EXCEPT !["errorRaw"] = VStr(lastCall.raw)])
       /\ FirstReply = Msg("assistant", Malformed)

C8_Witness ==
  /\ Completed
  /\ lastCall.status = 200
  /\ lastCall.raw = <<" ">>
  /\ lastCall.outcome = "parse_error"

Probed == reply # NoReply /\ probe.t = "obj"
\* String(v).trim(), or the rephrase text when that is empty
TrimmedOrRephrase(v) ==
  IF Trim(ToStr(v)) # << >> THEN Trim(ToStr(v)) ELSE Rephrase

\* C9: for an object with a text field, whatever its value, extractBotReply
\* returns the trimmed string conversion of text (the rephrase text if empty);
\* with no text field but a message field, the same of message.
C9_TextThenMessage ==
  Probed =>
    /\ HasKey(probe, "text") => reply.s = TrimmedOrRephrase(probe.f["text"])
    /\ (~HasKey(probe, "text") /\ HasKey(probe, "message"))
         => reply.s = TrimmedOrRephrase(probe.f["message"])

\* an object without text and message and with a key other than clientId
C10_Case ==
  /\ Probed
  /\ ~HasKey(probe, "text") /\ ~HasKey(probe, "message")
  /\ \E k \in Keys \ {"clientId"} : HasKey(probe, k)

\* C10 as claimed: in that case, whenever an error field is present, whatever its
\* value, the result is the string conversion of error.
C10_PresentErrorWins ==
  (C10_Case /\ HasKey(probe, "error")) => reply.s = ToStr(probe.f["error"])

\* C10, amended: in that case, an error field with a truthy value gives the
\* string conversion of error, untrimmed, before the errorRaw and the JSON rules;
\* an error field with a falsy value ("", 0, false, null) is passed over, and
\* those rules decide.
C10_TruthyErrorWins ==
  C10_Case =>
    /\ Truthy(probe.f["error"]) => reply.s = ToStr(probe.f["error"])
    /\ (HasKey(probe, "error") /\ ~Truthy(probe.f["error"]))
         => reply.s = IF HasKey(probe, "errorRaw") THEN Malformed
                      ELSE JsonStringify(probe)

C10_Witness ==
  /\ C10_Case
  /\ probe.f["error"] = VStr(<<" ", "a", " ">>)
  /\ HasKey(probe, "errorRaw")
  /\ reply.s = <<" ", "a", " ">>

\* C11: for an object without text and message whose keys, clientId left out,
\* are none ({} or {clientId: x}), extractBotReply returns the network-unstable
\* text; and a 2xx response with an empty body, parsed as {}, gives an assistant
\* message with that text.
C11_EmptyObjectIsNetUnstable ==
  /\ (/\ Probed
      /\ \A k \in Keys \ {"clientId"} : ~HasKey(probe, k))
       => reply.s = NetUnstable
  /\ (/\ Completed
      /\ lastCall.outcome \in {"success", "exception"}
      /\ lastCall.raw = << >>)
       => /\ ParseBody(lastCall.raw) = DObj(NoFields)
          /\ FirstReply = Msg("assistant", NetUnstable)

C11_Witness ==
  /\ Probed
  /\ probe = DObj([NoFields EXCEPT !["clientId"] = VNum(0)])
  /\ reply.s = NetUnstable
  /\ Completed
  /\ lastCall.outcome = "success"
  /\ lastCall.status = 200
  /\ lastCall.raw = << >>

\* the request of the send lastCall is about (no other is issued while it is
\* in flight)
LastRequest == requests[Len(requests)]

\* C12: a send from idle with trimmed non-empty content c that ends in a 2xx
\* response with parsed body d has appended exactly two messages to the list it
\* found: the user message c and the assistant message extractBotReply(d).
C12_SuccessAppendsTwo ==
  (/\ Completed
   /\ lastCall.outcome \in {"success", "parse_error", "exception"}
   /\ ResOk(lastCall.status))
    => /\ Len(messages) = lastCall.base + 2
       /\ messages[lastCall.base + 1] = Msg("user", LastRequest.body.text)
       /\ messages[lastCall.base + 2] =
            Msg("assistant", extractBotReply(ParseBody(lastCall.raw)))

\* C13: over page loads and sends that share one localStorage, an identifier is
\* generated and stored only by a load that finds none stored; a stored one is
\* never replaced, the page uses it, and every request carries it both in the
\* X-Client-Id header and in the clientId field of the body.
C13_Stable ==
  /\ storage # VNull =>
       /\ storage' = storage
       /\ clientId' \in {NoPage, storage.s}
  /\ storage = VNull /\ storage' # VNull =>
       /\ storage'.s \in FreshIds
       /\ clientId' = storage'.s
       /\ requests = << >>

C13_Carried ==
  /\ clientId # NoPage => storage = VStr(clientId)
  /\ \A i \in 1..Len(requests) :
       /\ requests[i].xClientId = storage.s
       /\ requests[i].body.clientId = storage.s

C13_OneClientId == [][C13_Stable]_vars /\ []C13_Carried

C13_Witness ==
  /\ Len(requests) = 2
  /\ storage = VStr(StoredId)
  /\ lastCall.kind = "accepted"
  /\ lastCall.base = 1
  /\ requests[1].xClientId = StoredId
  /\ requests[2].body.clientId = StoredId

\* every request is a POST to API_BASE/api/chat whose body has the fields text,
\* clientId and language and no other, text being the trimmed text of the user
\* message appended for it and language being lang
RequestShape(lang) ==
  /\ \A i \in 1..Len(requests) :
       /\ requests[i].method = "POST"
       /\ requests[i].url = ApiBase \o <<"/api/chat">>
       /\ DOMAIN requests[i].body = {"text", "clientId", "language"}
       /\ requests[i].body.language = lang
       /\ requests[i].body.text # << >>
       /\ requests[i].body.text = Trim(requests[i].body.text)
       /\ \E j \in 1..Len(messages) :
            messages[j] = Msg("user", requests[i].body.text)
  /\ lastCall.kind = "accepted" =>
       messages[lastCall.base + 1] = Msg("user", LastRequest.body.text)

\* C14 as stated: every request is a POST to API_BASE/api/chat whose JSON body
\* has exactly the fields text, clientId and language, where text is the trimmed
\* content appended as the user message and language is the constant "zh-Hant".
C14_LanguageZhHant == RequestShape(<<"zh-Hant">>)

\* C14 amended: every request is a POST to API_BASE/api/chat whose JSON body has
\* exactly the fields text, clientId and language, where text is the trimmed
\* content appended as the user message and language is the four-character
\* Chinese literal of app.js:220.
C14_LanguageLiteral == RequestShape(Language)

C14_Witness ==
  /\ Len(requests) = 2
  /\ lastCall.kind = "accepted"
  /\ requests[1].body.text = <<"a">>
  /\ LastRequest.body.text = <<"b">>
  /\ LastRequest.body.language = Language

\* C15: no failure of a send (unparsable body, non-2xx status, network failure,
\* exception while the response is processed) reaches the caller: the call of
\* sendText completes normally, the failure having become an assistant message.
C15_NoFailurePropagates ==
  lastCall.kind \in {"completed", "aborted"} =>
    /\ ~lastCall.threw
    /\ lastCall.outcome # "success" =>
         /\ lastCall.appended >= 1
         /\ messages[Len(messages)].role = "assistant"
         /\ view = Render(messages)

\* C16: a call of sendText made while a send is in flight changes nothing: no user
\* message, no request, and the input value, the busy indicator and isSending are
\* as before; the text of that call is not sent later either, since no request is
\* issued but by a call of sendText that is accepted from idle.
C16_Step ==
  /\ inflight # {} =>
       /\ requests' = requests
       /\ UserCount(messages') = UserCount(messages)
       /\ inputValue' = inputValue
       /\ inflight' # {} =>
            UNCHANGED <<messages, view, isSending, thinkingHidden, btnDisabled,
                        inputDisabled>>
  /\ (lastCall'.kind = "busy" /\ lastCall.kind # "busy") =>
       /\ inflight # {}
       /\ UNCHANGED <<messages, view, isSending, thinkingHidden, btnDisabled,
                      inputDisabled, inputValue, inflight, requests>>
  /\ requests' # requests =>
       /\ inflight = {}
       /\ lastCall'.kind = "accepted"
       /\ Len(requests') = Len(requests) + 1
       /\ SubSeq(requests', 1, Len(requests)) = requests

C16_CallInFlightIsDropped == [][C16_Step]_vars

C16_Witness ==
  /\ lastCall.kind = "busy"
  /\ isSending
  /\ ~thinkingHidden
  /\ Len(requests) = 1
  /\ UserCount(messages) = 1
  /\ \E c \in inflight : c.stage = "text"

\* C17: a call of sendText from idle whose text (the argument if given, else the
\* value of the input) is empty after trimming does nothing: no message, no
\* request, isSending stays false and the busy indicator hidden; so a following
\* call with a non-empty text is accepted. From idle a message is appended only
\* for a text that is not empty after trimming.
C17_Step ==
  /\ (lastCall'.kind = "empty" /\ lastCall.kind # "empty") =>
       /\ inflight = {}
       /\ UNCHANGED <<messages, view, isSending, thinkingHidden, btnDisabled,
                      inputDisabled, inputValue, inflight, requests>>
  /\ (inflight = {} /\ messages' # messages) =>
       /\ Len(messages') > Len(messages)
       /\ messages'[Len(messages) + 1].role = "user"
       /\ messages'[Len(messages) + 1].text # << >>
       /\ Trim(messages'[Len(messages) + 1].text) = messages'[Len(messages) + 1].text

C17_Idle ==
  lastCall.kind = "empty" =>
    /\ ~isSending
    /\ thinkingHidden
    /\ ~btnDisabled
    /\ ~inputDisabled
    /\ inflight = {}
    /\ UserCount(messages) < SendBound(scenario) =>
         ENABLED (DirectCall /\ lastCall'.kind = "accepted")

C17_EmptyTextIsNoOp == [][C17_Step]_vars /\ []C17_Idle

C17_Witness ==
  /\ lastCall.kind = "empty"
  /\ inputValue = <<" ">>
  /\ UserCount(messages) = 1
  /\ Len(requests) = 1
  /\ ~isSending

\* C18: the message list is append-only: in every step the list before is a
\* prefix of the list after; no message is removed, reordered or altered.
C18_Step ==
  /\ Len(messages') >= Len(messages)
  /\ SubSeq(messages', 1, Len(messages)) = messages

C18_AppendOnly == [][C18_Step]_vars

C18_Witness ==
  /\ Len(messages) = 5
  /\ messages[1] = Msg("assistant", Welcome)
  /\ messages[2].role = "user"
  /\ messages[4].role = "user"
  /\ lastCall.kind = "completed"
  /\ lastCall.base = 3

\* C19: an accepted send goes idle, sending, outcome, idle: if the network ends
\* every request by a response or a failure, every send in flight ends and leaves
\* the page idle, whatever the outcome; the step that ends it issues no request
\* (no retry); and a call of sendText with a non-empty text is then accepted and
\* issues a new request.
C19_Ends ==
  isSending ~> (/\ ~isSending
                /\ inflight = {}
                /\ thinkingHidden
                /\ lastCall.kind = "completed")

C19_NoRetry ==
  (inflight # {} /\ inflight' = {}) =>
    /\ requests' = requests
    /\ ~isSending'
    /\ lastCall'.kind = "completed"

C19_Ready ==
  (Completed /\ UserCount(messages) < SendBound(scenario)) =>
    ENABLED (/\ DirectCall
             /\ lastCall'.kind = "accepted"
             /\ Len(requests') = Len(requests) + 1)

C19_SendCycle == C19_Ends /\ [][C19_NoRetry]_vars /\ []C19_Ready

C19_Witness ==
  /\ lastCall.kind = "accepted"
  /\ lastCall.base = 3
  /\ Len(requests) = 2
  /\ isSending
  /\ messages[3].role = "assistant"

\* C20: the assistant text of a send that received an HTTP response depends on
\* the response only (status and body): the offline text is for failures of the
\* network and is never shown for a response of non-2xx status, whatever
\* navigator.onLine is.
C20_ResponseDecidesText ==
  (Completed /\ lastCall.outcome \in {"success", "parse_error", "http_error"}) =>
    /\ FirstReply.text =
         IF ResOk(lastCall.status)
         THEN extractBotReply(ParseBody(lastCall.raw))
         ELSE HttpError(lastCall.status, ParseBody(lastCall.raw), lastCall.raw).message
    /\ lastCall.outcome = "http_error" => FirstReply.text # Offline

====
